---- MODULE Spec2Model ----
(***************************************************************************)
(* The quota page of the management centre (src/src/pages/QuotaPage.tsx):  *)
(* its React state, the two loaders loadConfig and loadFiles, the combined *)
(* header refresh, the refreshAllQuotas orchestration with its cooperative *)
(* abort flag, and the teardown effect; and the collapsible preview of a   *)
(* text (src/unnamed/part_000, CollapsibleContent), which the quota page   *)
(* does not render and which has a specification of its own.               *)
(*                                                                         *)
(* One action is one task of the JavaScript event loop: an event handler   *)
(* up to its first await, or the settlement of one network request         *)
(* together with every continuation that settlement resumes (promise       *)
(* continuations are microtasks and run before the next task).             *)
(***************************************************************************)
EXTENDS Integers, Sequences, FiniteSets, TLC

VARIABLES
    phase,               \* "rendered" (before the effects ran), "mounted", "unmounted"
    files,               \* useState<AuthFileItem[]>([])
    loading,             \* useState(true)
    error,               \* useState('')
    refreshingAll,       \* useState(false)
    refreshAllAbortRef,  \* useRef(null): {} is null, {r} the abort closure of run r
    quotaStore,          \* useQuotaStore: one state map per provider config
    runs,                \* the activations of refreshAllQuotas that passed the guard
    configCalls,         \* fetchConfigYaml requests in flight for loadConfig calls outside a run
    filesCalls,          \* authFilesApi.list requests in flight for loadFiles calls
    earlyReturn,         \* whether the task that ran last was a call of
                         \* refreshAllQuotas that returned at its guard
    content,             \* CollapsibleContent: the content prop, its UTF-16 units
    maxPreviewLength,    \* the maxPreviewLength prop: <<>> when not given, or <<n>>
    isExpanded,          \* useState(false)
    view,                \* what the component rendered last
    clicks               \* the clicks on the toggle button so far

\* the state of a CollapsibleContent
previewState == <<content, maxPreviewLength, isExpanded, view, clicks>>

vars == <<phase, files, loading, error, refreshingAll, refreshAllAbortRef,
          quotaStore, runs, configCalls, filesCalls, earlyReturn, previewState>>

pageState == <<files, loading, error, refreshingAll, refreshAllAbortRef, quotaStore>>

----------------------------------------------------------------------------
(* Bounds of the model *)

\* activations of refreshAllQuotas that may finish; no new one starts after that
MaxRuns == 1
\* loadConfig calls, and loadFiles calls, that may be in flight together
\* outside a run
MaxCalls == 2

\* the characters before the padding of a content
MaxLen == 3
\* the kilobytes of padding of the longest contents
MaxKB == 2
\* the greatest small value of the maxPreviewLength prop
MaxPreview == 3
\* the clicks on the toggle button
MaxClicks == 3

\* one activation more than may finish, so that a second one can start while
\* the last one is in flight if the guard lets it
RunIds == 1..(MaxRuns + 1)

----------------------------------------------------------------------------
(* The provider configurations and the files *)

\* const configs = [ANTIGRAVITY_CONFIG, CODEX_CONFIG, GEMINI_CLI_CONFIG, CLAUDE_CONFIG]
configs == <<"ANTIGRAVITY", "CODEX", "GEMINI_CLI", "CLAUDE">>

ConfigIdx == 1..Len(configs)

File(n, ty) == [name |-> n, type |-> ty]

Names == {"a1", "a2", "c1", "g1", "k1", "x1"}

\* config.filterFn(file): the four predicates are pairwise disjoint
filterFn(config, file) == file.type = config

\* config.buildLoadingState / buildSuccessState / buildErrorState
buildLoadingState == [status |-> "loading"]
buildSuccessState(data) == [status |-> "success", data |-> data]
buildErrorState(message, status) ==
    [status |-> "error", error |-> message, errorStatus |-> status]

\* a key the map does not hold
NoEntry == [status |-> "none"]

\* t(key): the translation of a key, here the key
t(key) == key

----------------------------------------------------------------------------
(* What the network can answer *)

ErrorOf(message, status) == [isError |-> TRUE, message |-> message, status |-> status]
\* a thrown value that is no Error and has no status field
NonError == [isError |-> FALSE, message |-> "", status |-> "undefined"]

ConfigThrown == {ErrorOf("config failed", "undefined"), NonError}
ListThrown == {ErrorOf("list failed", "undefined"), NonError}
\* what a provider's fetchQuota throws: an Error carrying a status, or, for
\* the fetchers of CODEX and CLAUDE, a value that is no Error
QuotaThrown(type) ==
    IF type \in {"CODEX", "CLAUDE"} THEN {NonError} ELSE {ErrorOf("timeout", "503")}

\* useAuthStore((state) => state.connectionStatus)
ConnectionStatuses == {"connected", "disconnected"}

Resolved(data) == [ok |-> TRUE, data |-> data]
Rejected(err) == [ok |-> FALSE, err |-> err]

ConfigResponses == {Resolved("yaml")} \cup {Rejected(e) : e \in ConfigThrown}

\* authFilesApi.list(): Promise<{ files?: AuthFileItem[] }>
ListPayloads ==
    { [hasFiles |-> FALSE, files |-> <<>>],
      [hasFiles |-> TRUE,
       files |-> <<File("x1", "other"), File("c1", "CODEX"),
                   File("a1", "ANTIGRAVITY"), File("a2", "ANTIGRAVITY")>>],
      [hasFiles |-> TRUE,
       files |-> <<File("k1", "CLAUDE"), File("g1", "GEMINI_CLI"),
                   File("a2", "ANTIGRAVITY")>>] }

ListResponses == {Resolved(d) : d \in ListPayloads} \cup {Rejected(e) : e \in ListThrown}

\* config.fetchQuota(file, t): the quota of the file asked for, or a failure
QuotaResponses(file) ==
    {Resolved(<<"quota", file.name>>)} \cup {Rejected(e) : e \in QuotaThrown(file.type)}

----------------------------------------------------------------------------
(* The pure parts of the handlers *)

\* err instanceof Error ? err.message : t(fallbackKey)
errorMessage(err, fallbackKey) == IF err.isError THEN err.message ELSE t(fallbackKey)

\* a || b on strings
OrElse(a, b) == IF a # "" THEN a ELSE b

\* LoadConfigError with setError(errorMessage): the last error wins
LoadConfigErrorOverwrite(prev, resp) ==
    IF resp.ok THEN prev ELSE errorMessage(resp.err, "notification.refresh_failed")

\* loadConfig's catch: setError((prev) => prev || errorMessage)
LoadConfigError(prev, resp) ==
    IF resp.ok THEN prev
    ELSE OrElse(prev, errorMessage(resp.err, "notification.refresh_failed"))

\* data?.files || []
FilesOf(data) == IF data.hasFiles THEN data.files ELSE <<>>

\* LoadFilesError with setError((prev) => prev || errorMessage), as in loadConfig
LoadFilesErrorFirstWins(prev, resp) ==
    IF resp.ok THEN prev
    ELSE OrElse(prev, errorMessage(resp.err, "notification.refresh_failed"))

\* LoadFilesError with the message set only when the config reload has not
\* failed: setError((prev) => prev || errorMessage) after setError('')
LoadFilesErrorAfterConfig(prev, resp) ==
    IF resp.ok \/ prev # "" THEN prev
    ELSE errorMessage(resp.err, "notification.refresh_failed")

\* loadFiles' catch: setError(errorMessage)
LoadFilesError(prev, resp) ==
    IF resp.ok THEN prev ELSE errorMessage(resp.err, "notification.refresh_failed")

\* loadFiles' try: setFiles(data?.files || [])
LoadFilesFiles(prev, resp) == IF resp.ok THEN FilesOf(resp.data) ELSE prev

\* LoadFilesLoading with setLoading(false) at the end of the try block
LoadFilesLoadingTryOnly(prev, resp) == IF resp.ok THEN FALSE ELSE prev

\* loadFiles' finally: setLoading(false)
LoadFilesLoading(prev, resp) == FALSE

----------------------------------------------------------------------------
(* One activation of refreshAllQuotas: its position and its local variables *)

NoResult == [state |-> "none"]
PendingResult == [state |-> "pending"]

\* let aborted = false; filesList; the provider being processed; results
IdleRun ==
    [pc |-> "idle", aborted |-> FALSE, filesList |-> <<>>, idx |-> 0,
     results |-> [n \in Names |-> NoResult]]

InFlight(r) == runs[r].pc \in {"config", "list", "quota"}

NamesOf(list) == {list[i].name : i \in 1..Len(list)}

\* filesList.filter((file) => config.filterFn(file))
filteredFiles(config, list) == SelectSeq(list, LAMBDA file : filterFn(config, file))

\* the first setter call of a pass: every matching file becomes loading
MarkLoading(prev, filtered) ==
    [n \in Names |-> IF n \in NamesOf(filtered) THEN buildLoadingState ELSE prev[n]]

\* what one element of the Promise.all resolves to; resp, the answer of the
\* request itself, is kept beside it for the properties
QuotaResult(file, resp) ==
    IF resp.ok
    THEN [state |-> "settled", name |-> file.name, status |-> "success",
          data |-> resp.data, error |-> "", errorStatus |-> "undefined",
          resp |-> resp]
    ELSE [state |-> "settled", name |-> file.name, status |-> "error",
          data |-> <<>>, error |-> errorMessage(resp.err, "common.unknown_error"),
          errorStatus |-> resp.err.status, resp |-> resp]

\* the state one result is turned into by the second setter call
ResultState(result) ==
    IF result.status = "success"
    THEN buildSuccessState(result.data)
    ELSE buildErrorState(OrElse(result.error, t("common.unknown_error")),
                         result.errorStatus)

\* MergeResults without the copy { ...prev }: the map holds the results only
MergeResultsFresh(prev, filtered, results) ==
    [n \in Names |->
        IF n \in NamesOf(filtered) THEN ResultState(results[n]) ELSE NoEntry]

\* the second setter call of a pass: nextState[result.name] = ... for every result
MergeResults(prev, filtered, results) ==
    [n \in Names |->
        IF n \in NamesOf(filtered) THEN ResultState(results[n]) ELSE prev[n]]

\* the providers from position k on that have a matching file
Remaining(list, k) ==
    {i \in ConfigIdx : i >= k /\ Len(filteredFiles(configs[i], list)) > 0}

Least(S) == CHOOSE i \in S : \A j \in S : i <= j

\* LoopFrom over the configs in reverse: the last provider with a matching
\* file is taken first
LoopFromReversed(store, run, k) ==
    IF run.aborted \/ Remaining(run.filesList, k) = {}
    THEN [store |-> store, run |-> [run EXCEPT !.pc = "done"]]
    ELSE LET S == Remaining(run.filesList, k)
             i == CHOOSE x \in S : \A y \in S : x >= y
             filtered == filteredFiles(configs[i], run.filesList)
         IN  [store |-> [store EXCEPT ![configs[i]] = MarkLoading(@, filtered)],
              run |-> [run EXCEPT
                         !.pc = "quota",
                         !.idx = i,
                         !.results = [n \in Names |->
                                        IF n \in NamesOf(filtered)
                                        THEN PendingResult ELSE @[n]]]]

\* for (const config of configs), entered at position k, up to its next await
\* or its end: the store and the run as they are then
LoopFrom(store, run, k) ==
    IF run.aborted \/ Remaining(run.filesList, k) = {}
    THEN [store |-> store, run |-> [run EXCEPT !.pc = "done"]]
    ELSE LET i == Least(Remaining(run.filesList, k))
             filtered == filteredFiles(configs[i], run.filesList)
         IN  [store |-> [store EXCEPT ![configs[i]] = MarkLoading(@, filtered)],
              run |-> [run EXCEPT
                         !.pc = "quota",
                         !.idx = i,
                         !.results = [n \in Names |->
                                        IF n \in NamesOf(filtered)
                                        THEN PendingResult ELSE @[n]]]]

\* AfterAll without the try and catch around each fetchQuota: one rejection
\* rejects the Promise.all and the pass ends without a merge
AfterAllFailFast(store, run) ==
    IF run.aborted
       \/ \E n \in NamesOf(filteredFiles(configs[run.idx], run.filesList)) :
             run.results[n].status = "error"
    THEN [store |-> store, run |-> [run EXCEPT !.pc = "done"]]
    ELSE LET config == configs[run.idx]
             filtered == filteredFiles(config, run.filesList)
             merged == [store EXCEPT ![config] = MergeResults(@, filtered, run.results)]
         IN  LoopFrom(merged, run, run.idx + 1)

\* AfterAll with one setter shared by the providers: the merge writes every map
AfterAllShared(store, run) ==
    IF run.aborted
    THEN [store |-> store, run |-> [run EXCEPT !.pc = "done"]]
    ELSE LET filtered == filteredFiles(configs[run.idx], run.filesList)
             merged == [c \in DOMAIN store |->
                          MergeResults(store[c], filtered, run.results)]
         IN  LoopFrom(merged, run, run.idx + 1)

\* AfterAll with the abort test inverted: the merge is skipped and the loop
\* goes on
AfterAllNoMerge(store, run) ==
    IF run.aborted
    THEN [store |-> store, run |-> [run EXCEPT !.pc = "done"]]
    ELSE LoopFrom(store, run, run.idx + 1)

\* AfterAll with the abort check only at the top of the next iteration: the
\* results of the pass in progress are merged whatever the flag says
AfterAllMergeFirst(store, run) ==
    LET config == configs[run.idx]
        filtered == filteredFiles(config, run.filesList)
        merged == [store EXCEPT ![config] = MergeResults(@, filtered, run.results)]
    IN  LoopFrom(merged, run, run.idx + 1)

\* the continuation of await Promise.all(...): the abort check, the merge, and
\* the loop's next iterations
AfterAll(store, run) ==
    IF run.aborted
    THEN [store |-> store, run |-> [run EXCEPT !.pc = "done"]]
    ELSE LET config == configs[run.idx]
             filtered == filteredFiles(config, run.filesList)
             merged == [store EXCEPT ![config] = MergeResults(@, filtered, run.results)]
         IN  LoopFrom(merged, run, run.idx + 1)

\* a finally block that leaves refreshingAll as it is
FinallyRefreshingAllKept(run, prev) == prev

\* a finally block that leaves the abort reference as it is
FinallyAbortRefKept(run, prev) == prev

\* finally { if (!aborted) { setRefreshingAll(false); refreshAllAbortRef.current = null } }
FinallyRefreshingAll(run, prev) == IF run.aborted THEN prev ELSE FALSE
FinallyAbortRef(run, prev) == IF run.aborted THEN prev ELSE {}

\* EarlyReturn without the test of refreshingAll
EarlyReturnDisabledOnly(isRefreshingAll, disableControls) == disableControls

\* if (refreshingAll || disableControls) return. refreshingAll is the value the
\* callback closed over at the last render; React renders after the click that
\* set it and before the next event is handled, so it is the current value
EarlyReturn(isRefreshingAll, disableControls) == isRefreshingAll \/ disableControls

----------------------------------------------------------------------------
(* CollapsibleContent: strings are sequences of their UTF-16 units *)

\* Math.ceil(content.length / 1024)
KB == 1024
\* maxPreviewLength = 200
DefaultMaxPreviewLength == 200
\* JSON.stringify(parsed, null, 2)
Indent == 2

Chars == {"1", " ", "[", "]"}

Spaces(n) == [i \in 1..n |-> " "]

\* the contents: up to MaxLen characters, then no padding or about a whole
\* number of kilobytes of spaces
Paddings == {0} \cup {k * KB + d : k \in 1..MaxKB, d \in {-1, 0, 1}}
Contents ==
    {s \o Spaces(p) : s \in UNION {[1..n -> Chars] : n \in 0..MaxLen}, p \in Paddings}

\* the values of the prop: not given, or a number
PreviewProps == {<<>>} \cup {<<n>> : n \in (-1..MaxPreview) \cup {KB}}

\* the parameter default of the destructuring
PropOrDefault(prop) == IF prop = <<>> THEN DefaultMaxPreviewLength ELSE prop[1]

Clamp(n, len) == IF n < 0 THEN 0 ELSE IF n > len THEN len ELSE n

\* String.prototype.substring(start, end): both clamped to 0..length, then
\* swapped when start is the greater
substring(s, start, end) ==
    LET a == Clamp(start, Len(s))
        b == Clamp(end, Len(s))
    IN  IF a <= b THEN SubSeq(s, a + 1, b) ELSE SubSeq(s, b + 1, a)

\* Math.ceil(a / b) for a >= 0 and b > 0
Ceil(a, b) == (a + b - 1) \div b

\* the first and the last position of lo..hi that holds no JSON whitespace;
\* hi + 1 and lo - 1 when there is none
FirstNonWs(s, lo, hi) ==
    IF \A i \in lo..hi : s[i] = " " THEN hi + 1
    ELSE CHOOSE i \in lo..hi : s[i] # " " /\ \A j \in lo..(i - 1) : s[j] = " "
LastNonWs(s, lo, hi) ==
    IF \A i \in lo..hi : s[i] = " " THEN lo - 1
    ELSE CHOOSE i \in lo..hi : s[i] # " " /\ \A j \in (i + 1)..hi : s[j] = " "

JsonNumber(digits) == [ok |-> TRUE, type |-> "number", digits |-> digits, elems |-> <<>>]
JsonArray(elems) == [ok |-> TRUE, type |-> "array", digits |-> <<>>, elems |-> elems]
SyntaxError == [ok |-> FALSE, type |-> "none", digits |-> <<>>, elems |-> <<>>]

\* JSON.parse of s[lo..hi], for texts over Chars: a value is a number of
\* digits 1 or an array of no or one value (there is no comma), with
\* whitespace around it
RECURSIVE ParseRange(_, _, _)
ParseRange(s, lo, hi) ==
    LET a == FirstNonWs(s, lo, hi)
        b == LastNonWs(s, lo, hi)
    IN  IF a > b THEN SyntaxError
        ELSE IF \A i \in a..b : s[i] = "1" THEN JsonNumber(SubSeq(s, a, b))
        ELSE IF a < b /\ s[a] = "[" /\ s[b] = "]"
        THEN IF FirstNonWs(s, a + 1, b - 1) > b - 1 THEN JsonArray(<<>>)
             ELSE LET inner == ParseRange(s, a + 1, b - 1)
                  IN  IF inner.ok THEN JsonArray(<<inner>>) ELSE SyntaxError
        ELSE SyntaxError

\* JSON.stringify(value, null, 2) at a nesting of level spaces
RECURSIVE Stringify(_, _)
Stringify(value, level) ==
    IF value.type = "number" THEN value.digits
    ELSE IF value.elems = <<>> THEN <<"[", "]">>
    ELSE <<"[", "\n">> \o Spaces(level + Indent)
            \o Stringify(value.elems[1], level + Indent)
            \o <<"\n">> \o Spaces(level) \o <<"]">>

\* formatContent: the text beautified when it is JSON, the text itself when
\* JSON.parse throws
formatContent(text) ==
    LET parsed == ParseRange(text, 1, Len(text))
    IN  IF parsed.ok THEN Stringify(parsed, 0) ELSE text

\* NeedsCollapse with < for <=: a content of the very length is collapsed
NeedsCollapseAtLimit(text, limit) == Len(text) >= limit

\* the negation of: content.length <= maxPreviewLength
NeedsCollapse(text, limit) == ~(Len(text) <= limit)

\* what the component returns: the element, its text, and the toggle button
\* with its label and, on the expand button, the size in KB
Render(text, prop, expanded) ==
    LET limit == PropOrDefault(prop)
    IN  IF ~NeedsCollapse(text, limit)
        THEN [kind |-> "raw", text |-> text, toggle |-> "none", size |-> <<>>]
        ELSE IF expanded
        THEN [kind |-> "expanded", text |-> formatContent(text),
              toggle |-> t("logs.collapse"), size |-> <<>>]
        ELSE [kind |-> "collapsed",
              text |-> substring(text, 0, limit) \o <<".", ".", ".">>,
              toggle |-> t("logs.expand"), size |-> <<Ceil(Len(text), KB)>>]

\* no CollapsibleContent is on the quota page
NoPreview ==
    /\ content = <<>>
    /\ maxPreviewLength = <<>>
    /\ isExpanded = FALSE
    /\ view = Render(<<>>, <<>>, FALSE)
    /\ clicks = 0

----------------------------------------------------------------------------
(* The state after construction *)

PageInit ==
    /\ phase = "rendered"
    /\ files = <<>>
    /\ loading = TRUE
    /\ error = ""
    /\ refreshingAll = FALSE
    /\ refreshAllAbortRef = {}
    /\ quotaStore = [c \in {configs[i] : i \in ConfigIdx} |-> [n \in Names |-> NoEntry]]
    /\ runs = [r \in RunIds |-> IdleRun]
    /\ configCalls = 0
    /\ filesCalls = 0
    /\ earlyReturn = FALSE

Init == PageInit /\ NoPreview

\* useQuotaStore is a store of the session, not of the page: the maps as an
\* earlier visit of the page left them, a1 failed, a2 answered, and c1 marked
\* loading by a run that was aborted
PriorStore ==
    [c \in {configs[i] : i \in ConfigIdx} |->
        [n \in Names |->
            IF c = "ANTIGRAVITY" /\ n = "a1" THEN buildErrorState("timeout", "503")
            ELSE IF c = "ANTIGRAVITY" /\ n = "a2" THEN buildSuccessState(<<"quota", "a2">>)
            ELSE IF c = "CODEX" /\ n = "c1" THEN buildLoadingState
            ELSE NoEntry]]

\* the state after construction when the page is visited again
RevisitInit ==
    /\ phase = "rendered"
    /\ files = <<>>
    /\ loading = TRUE
    /\ error = ""
    /\ refreshingAll = FALSE
    /\ refreshAllAbortRef = {}
    /\ quotaStore = PriorStore
    /\ runs = [r \in RunIds |-> IdleRun]
    /\ configCalls = 0
    /\ filesCalls = 0
    /\ earlyReturn = FALSE
    /\ NoPreview

----------------------------------------------------------------------------
(* Effects, events and the loaders outside a run *)

\* useEffect(() => { loadFiles(); loadConfig(); }, ...): both run to their await
Mount ==
    /\ phase = "rendered"
    /\ phase' = "mounted"
    /\ loading' = TRUE
    /\ error' = ""
    /\ filesCalls' = filesCalls + 1
    /\ configCalls' = configCalls + 1
    /\ earlyReturn' = FALSE
    /\ UNCHANGED previewState
    /\ UNCHANGED <<files, refreshingAll, refreshAllAbortRef, quotaStore, runs>>

\* handleHeaderRefresh: Promise.all([loadConfig(), loadFiles()])
HeaderRefresh ==
    /\ phase = "mounted"
    /\ configCalls < MaxCalls
    /\ filesCalls < MaxCalls
    /\ configCalls' = configCalls + 1
    /\ loading' = TRUE
    /\ error' = ""
    /\ filesCalls' = filesCalls + 1
    /\ earlyReturn' = FALSE
    /\ UNCHANGED previewState
    /\ UNCHANGED <<phase, files, refreshingAll, refreshAllAbortRef, quotaStore,
                   runs>>

\* loadConfig outside a run: its fetchConfigYaml settles
LoadConfigSettle(resp) ==
    /\ configCalls > 0
    /\ configCalls' = configCalls - 1
    /\ error' = LoadConfigError(error, resp)
    /\ earlyReturn' = FALSE
    /\ UNCHANGED previewState
    /\ UNCHANGED <<phase, files, loading, refreshingAll, refreshAllAbortRef,
                   quotaStore, runs, filesCalls>>

\* loadFiles: its authFilesApi.list settles; try or catch, then finally
LoadFilesSettle(resp) ==
    /\ filesCalls > 0
    /\ filesCalls' = filesCalls - 1
    /\ files' = LoadFilesFiles(files, resp)
    /\ error' = LoadFilesError(error, resp)
    /\ loading' = LoadFilesLoading(loading, resp)
    /\ earlyReturn' = FALSE
    /\ UNCHANGED previewState
    /\ UNCHANGED <<phase, refreshingAll, refreshAllAbortRef, quotaStore, runs,
                   configCalls>>

\* the teardown effect: if (refreshAllAbortRef.current) refreshAllAbortRef.current()
Unmount ==
    /\ phase = "mounted"
    /\ phase' = "unmounted"
    /\ runs' = [r \in RunIds |->
                  IF r \in refreshAllAbortRef
                  THEN [runs[r] EXCEPT !.aborted = TRUE] ELSE runs[r]]
    /\ earlyReturn' = FALSE
    /\ UNCHANGED previewState
    /\ UNCHANGED <<files, loading, error, refreshingAll, refreshAllAbortRef,
                   quotaStore, configCalls, filesCalls>>

----------------------------------------------------------------------------
(* refreshAllQuotas *)

UnusedRuns == {r \in RunIds : runs[r].pc = "idle"}
FinishedRuns == {r \in RunIds : runs[r].pc = "done"}

\* the call of refreshAllQuotas up to its first await (inside loadConfig), with
\* the connection status the auth store holds when the page was rendered. The
\* callback is taken to be callable in every state of the mounted page: the
\* button that calls it is disabled while disableControls, refreshingAll or
\* loading holds (line 181), which only removes calls
RefreshAllQuotas(connectionStatus) ==
    /\ phase = "mounted"
    /\ UNCHANGED previewState
    /\ IF EarlyReturn(refreshingAll, connectionStatus # "connected")
       THEN /\ earlyReturn' = TRUE
            /\ UNCHANGED <<phase, files, loading, error, refreshingAll,
                           refreshAllAbortRef, quotaStore, runs, configCalls,
                           filesCalls>>
       ELSE /\ UnusedRuns # {}
            /\ Cardinality(FinishedRuns) < MaxRuns
            /\ LET r == Least(UnusedRuns)
               IN  /\ refreshingAll' = TRUE
                   /\ error' = ""
                   /\ refreshAllAbortRef' = {r}
                   /\ runs' = [runs EXCEPT ![r] = [IdleRun EXCEPT !.pc = "config"]]
            /\ earlyReturn' = FALSE
            /\ UNCHANGED <<phase, files, loading, quotaStore, configCalls,
                           filesCalls>>

\* RunConfigSettle with a loadConfig that throws again what it caught: the
\* failure reaches the catch block of refreshAllQuotas and ends the run
RunConfigSettleRethrow(r, resp) ==
    /\ runs[r].pc = "config"
    /\ error' = IF resp.ok THEN error
                ELSE errorMessage(resp.err, "notification.refresh_failed")
    /\ LET run == [runs[r] EXCEPT
                     !.pc = IF runs[r].aborted \/ ~resp.ok THEN "done" ELSE "list"]
       IN  /\ runs' = [runs EXCEPT ![r] = run]
           /\ refreshingAll' =
                 IF run.pc = "done" THEN FinallyRefreshingAll(run, refreshingAll)
                 ELSE refreshingAll
           /\ refreshAllAbortRef' =
                 IF run.pc = "done" THEN FinallyAbortRef(run, refreshAllAbortRef)
                 ELSE refreshAllAbortRef
    /\ earlyReturn' = FALSE
    /\ UNCHANGED previewState
    /\ UNCHANGED <<phase, files, loading, quotaStore, configCalls, filesCalls>>

\* await loadConfig() of run r settles; if (aborted) return; else list() is called
RunConfigSettle(r, resp) ==
    /\ runs[r].pc = "config"
    /\ error' = LoadConfigError(error, resp)
    /\ LET run == [runs[r] EXCEPT !.pc = IF runs[r].aborted THEN "done" ELSE "list"]
       IN  /\ runs' = [runs EXCEPT ![r] = run]
           /\ refreshingAll' =
                 IF run.pc = "done" THEN FinallyRefreshingAll(run, refreshingAll)
                 ELSE refreshingAll
           /\ refreshAllAbortRef' =
                 IF run.pc = "done" THEN FinallyAbortRef(run, refreshAllAbortRef)
                 ELSE refreshAllAbortRef
    /\ earlyReturn' = FALSE
    /\ UNCHANGED previewState
    /\ UNCHANGED <<phase, files, loading, quotaStore, configCalls, filesCalls>>

\* CatchError with setError((prev) => prev || errorMessage), as in loadConfig
CatchErrorFirstWins(prev, resp) ==
    IF resp.ok THEN prev
    ELSE OrElse(prev, errorMessage(resp.err, "notification.refresh_failed"))

\* the error the catch block of refreshAllQuotas sets
CatchError(prev, resp) ==
    IF resp.ok THEN prev ELSE errorMessage(resp.err, "notification.refresh_failed")

\* setFiles(filesList), reached only when the list arrived and the run is not aborted
RunFiles(prev, run, resp) ==
    IF resp.ok /\ ~run.aborted THEN FilesOf(resp.data) ELSE prev

\* await authFilesApi.list() of run r settles: the catch block, or the abort
\* check, setFiles and the loop up to its first await
RunListSettle(r, resp) ==
    /\ runs[r].pc = "list"
    /\ error' = CatchError(error, resp)
    /\ files' = RunFiles(files, runs[r], resp)
    /\ LET next == IF resp.ok
                   THEN LoopFrom(quotaStore,
                                 [runs[r] EXCEPT !.filesList = FilesOf(resp.data)], 1)
                   ELSE [store |-> quotaStore, run |-> [runs[r] EXCEPT !.pc = "done"]]
       IN  /\ quotaStore' = next.store
           /\ runs' = [runs EXCEPT ![r] = next.run]
           /\ refreshingAll' =
                 IF next.run.pc = "done" THEN FinallyRefreshingAll(next.run, refreshingAll)
                 ELSE refreshingAll
           /\ refreshAllAbortRef' =
                 IF next.run.pc = "done" THEN FinallyAbortRef(next.run, refreshAllAbortRef)
                 ELSE refreshAllAbortRef
    /\ earlyReturn' = FALSE
    /\ UNCHANGED previewState
    /\ UNCHANGED <<phase, loading, configCalls, filesCalls>>

\* RunQuotaSettle without the try and catch around fetchQuota: a rejection
\* rejects the Promise.all and is caught by the catch block of refreshAllQuotas
RunQuotaSettleUncaught(r, file, resp) ==
    /\ runs[r].pc = "quota"
    /\ runs[r].results[file.name] = PendingResult
    /\ LET settled == [runs[r] EXCEPT !.results[file.name] = QuotaResult(file, resp)]
           waiting == \E n \in Names : settled.results[n] = PendingResult
           next == IF ~resp.ok
                   THEN [store |-> quotaStore, run |-> [settled EXCEPT !.pc = "done"]]
                   ELSE IF waiting THEN [store |-> quotaStore, run |-> settled]
                   ELSE AfterAll(quotaStore, settled)
       IN  /\ quotaStore' = next.store
           /\ runs' = [runs EXCEPT ![r] = next.run]
           /\ error' = CatchError(error, resp)
           /\ refreshingAll' =
                 IF next.run.pc = "done" THEN FinallyRefreshingAll(next.run, refreshingAll)
                 ELSE refreshingAll
           /\ refreshAllAbortRef' =
                 IF next.run.pc = "done" THEN FinallyAbortRef(next.run, refreshAllAbortRef)
                 ELSE refreshAllAbortRef
    /\ earlyReturn' = FALSE
    /\ UNCHANGED previewState
    /\ UNCHANGED <<phase, files, loading, configCalls, filesCalls>>

\* RunQuotaSettle with the setter called in each file's own continuation: a
\* result is written as soon as its request settles
RunQuotaSettleStreaming(r, file, resp) ==
    /\ runs[r].pc = "quota"
    /\ runs[r].results[file.name] = PendingResult
    /\ LET settled == [runs[r] EXCEPT !.results[file.name] = QuotaResult(file, resp)]
           written == IF settled.aborted THEN quotaStore
                      ELSE [quotaStore EXCEPT ![configs[settled.idx]][file.name] =
                                                 ResultState(settled.results[file.name])]
           waiting == \E n \in Names : settled.results[n] = PendingResult
           next == IF waiting THEN [store |-> written, run |-> settled]
                   ELSE AfterAll(written, settled)
       IN  /\ quotaStore' = next.store
           /\ runs' = [runs EXCEPT ![r] = next.run]
           /\ refreshingAll' =
                 IF next.run.pc = "done" THEN FinallyRefreshingAll(next.run, refreshingAll)
                 ELSE refreshingAll
           /\ refreshAllAbortRef' =
                 IF next.run.pc = "done" THEN FinallyAbortRef(next.run, refreshAllAbortRef)
                 ELSE refreshAllAbortRef
    /\ earlyReturn' = FALSE
    /\ UNCHANGED previewState
    /\ UNCHANGED <<phase, files, loading, error, configCalls, filesCalls>>

\* config.fetchQuota(file, t) of run r settles for one file of the provider in
\* progress; the last one to settle resumes the run
RunQuotaSettle(r, file, resp) ==
    /\ runs[r].pc = "quota"
    /\ runs[r].results[file.name] = PendingResult
    /\ LET settled == [runs[r] EXCEPT !.results[file.name] = QuotaResult(file, resp)]
           waiting == \E n \in Names : settled.results[n] = PendingResult
           next == IF waiting THEN [store |-> quotaStore, run |-> settled]
                   ELSE AfterAll(quotaStore, settled)
       IN  /\ quotaStore' = next.store
           /\ runs' = [runs EXCEPT ![r] = next.run]
           /\ refreshingAll' =
                 IF next.run.pc = "done" THEN FinallyRefreshingAll(next.run, refreshingAll)
                 ELSE refreshingAll
           /\ refreshAllAbortRef' =
                 IF next.run.pc = "done" THEN FinallyAbortRef(next.run, refreshAllAbortRef)
                 ELSE refreshAllAbortRef
    /\ earlyReturn' = FALSE
    /\ UNCHANGED previewState
    /\ UNCHANGED <<phase, files, loading, error, configCalls, filesCalls>>

\* the files whose quota request of run r is in flight
Fetching(r) ==
    {runs[r].filesList[i] : i \in {j \in 1..Len(runs[r].filesList) :
        runs[r].pc = "quota" /\ runs[r].results[runs[r].filesList[j].name] = PendingResult}}

----------------------------------------------------------------------------

Next ==
    \/ Mount
    \/ HeaderRefresh
    \/ \E resp \in ConfigResponses : LoadConfigSettle(resp)
    \/ \E resp \in ListResponses : LoadFilesSettle(resp)
    \/ Unmount
    \/ \E status \in ConnectionStatuses : RefreshAllQuotas(status)
    \/ \E r \in RunIds : \E resp \in ConfigResponses : RunConfigSettle(r, resp)
    \/ \E r \in RunIds : \E resp \in ListResponses : RunListSettle(r, resp)
    \/ \E r \in RunIds : \E file \in Fetching(r) :
          \E resp \in QuotaResponses(file) : RunQuotaSettle(r, file, resp)

Spec == Init /\ [][Next]_vars

\* the page visited again in the same session
RevisitSpec == RevisitInit /\ [][Next]_vars

\* a request awaited by a run settles
RunProgress ==
    \E r \in RunIds :
        \/ \E resp \in ConfigResponses : RunConfigSettle(r, resp)
        \/ \E resp \in ListResponses : RunListSettle(r, resp)
        \/ \E file \in Fetching(r) :
              \E resp \in QuotaResponses(file) : RunQuotaSettle(r, file, resp)

\* every network call a run awaits settles in the end
LiveSpec == Spec /\ WF_vars(RunProgress)

----------------------------------------------------------------------------
(* CollapsibleContent: one component with its props, and the clicks on it *)

\* the state of the quota page
pageVars == <<phase, files, loading, error, refreshingAll, refreshAllAbortRef,
              quotaStore, runs, configCalls, filesCalls, earlyReturn>>

\* the component is rendered for the first time
PreviewInit ==
    /\ PageInit
    /\ content \in Contents
    /\ maxPreviewLength \in PreviewProps
    /\ isExpanded = FALSE
    /\ view = Render(content, maxPreviewLength, FALSE)
    /\ clicks = 0

\* onClick of the expand button, which the collapsed view holds:
\* setIsExpanded(true), and the render that follows
ClickExpand ==
    /\ view.kind = "collapsed"
    /\ clicks < MaxClicks
    /\ isExpanded' = TRUE
    /\ view' = Render(content, maxPreviewLength, isExpanded')
    /\ clicks' = clicks + 1
    /\ UNCHANGED <<content, maxPreviewLength, pageVars>>

\* ClickCollapse with the handler of the expand button: setIsExpanded(true)
ClickCollapseStuck ==
    /\ view.kind = "expanded"
    /\ clicks < MaxClicks
    /\ isExpanded' = TRUE
    /\ view' = Render(content, maxPreviewLength, isExpanded')
    /\ clicks' = clicks + 1
    /\ UNCHANGED <<content, maxPreviewLength, pageVars>>

\* onClick of the collapse button, which the expanded view holds:
\* setIsExpanded(false), and the render that follows
ClickCollapse ==
    /\ view.kind = "expanded"
    /\ clicks < MaxClicks
    /\ isExpanded' = FALSE
    /\ view' = Render(content, maxPreviewLength, isExpanded')
    /\ clicks' = clicks + 1
    /\ UNCHANGED <<content, maxPreviewLength, pageVars>>

PreviewNext ==
    \/ ClickExpand
    \/ ClickCollapse

PreviewSpec == PreviewInit /\ [][PreviewNext]_vars

----------------------------------------------------------------------------
(* Properties *)

RunsInFlight == {r \in RunIds : InFlight(r)}

\* a step in which an activation of refreshAllQuotas passes the guard
RunStarts == \E r \in RunIds : runs[r].pc = "idle" /\ runs'[r].pc # "idle"

\* the files of a run's list that belong to the provider at position i
MatchingOf(run, i) == NamesOf(filteredFiles(configs[i], run.filesList))
Matching(r, i) == MatchingOf(runs[r], i)

\* no later activation has started
LatestRun(r) == \A q \in RunIds : q > r => runs[q].pc = "idle"

\* the pass of run r over the provider at position i is over and run r was not
\* aborted during it
PassOver(r, i) ==
    /\ Matching(r, i) # {}
    /\ \/ runs[r].idx > i
       \/ runs[r].idx = i /\ runs[r].pc = "done" /\ ~runs[r].aborted

\* the message a thrown value carries, or the translation of the fallback key
FailureMessage(err, fallbackKey) == IF err.isError THEN err.message ELSE fallbackKey

\* the state a file's entry is to hold once its request was answered with resp
ExpectedState(resp) ==
    IF resp.ok
    THEN [status |-> "success", data |-> resp.data]
    ELSE [status |-> "error",
          error |-> FailureMessage(resp.err, "common.unknown_error"),
          errorStatus |-> resp.err.status]

\* C1: a call of refreshAllQuotas made while an earlier activation is in flight
\* returns at the guard: no activation starts, and the call changes none of
\* files, loading, error, refreshingAll, the abort reference, the provider
\* state maps, and issues no request; so at most one activation is in flight.
C1_SecondInvocationIsNoOp ==
    /\ [](Cardinality(RunsInFlight) <= 1)
    /\ [][RunsInFlight # {} =>
            /\ ~RunStarts
            /\ earlyReturn' =>
                 UNCHANGED <<pageState, runs, configCalls, filesCalls>>]_vars

C1_Witness ==
    /\ phase = "mounted"
    /\ RunsInFlight # {}
    /\ earlyReturn

\* C2 (as claimed): when the abort flag is flipped while provider N's requests
\* are in flight, provider N's results are still merged: every matching file
\* of N ends as success or error.
C2_ResultsMergedAfterAbort ==
    \A r \in RunIds :
        (runs[r].aborted /\ runs[r].pc = "done" /\ runs[r].idx >= 1) =>
            \A n \in Matching(r, runs[r].idx) :
                quotaStore[configs[runs[r].idx]][n].status \in {"success", "error"}

\* C2 (amended): when the abort flag is flipped while provider N's requests
\* are in flight, provider N's results are not merged (its matching files stay
\* in the loading state the run gave them), no request is issued for a later
\* provider, and the run writes no state map from then on.
C2_NoMergeAfterAbort ==
    /\ [](\A r \in RunIds :
            (runs[r].aborted /\ runs[r].idx >= 1) =>
                /\ \A n \in Matching(r, runs[r].idx) :
                      quotaStore[configs[runs[r].idx]][n] = buildLoadingState
                /\ \A j \in ConfigIdx : \A n \in Matching(r, j) :
                      j > runs[r].idx => runs[r].results[n] = NoResult)
    /\ [][\A r \in RunIds :
            (runs[r].aborted /\ runs'[r] # runs[r]) => quotaStore' = quotaStore]_vars

C2_Witness ==
    \E r \in RunIds :
        /\ runs[r].aborted
        /\ runs[r].pc = "done"
        /\ runs[r].idx = 1
        /\ \A n \in Matching(r, 1) : runs[r].results[n].state = "settled"
        /\ \E j \in ConfigIdx : j > 1 /\ Matching(r, j) # {}

\* C3 (as claimed): once the abort flag of a run is flipped, no step of that
\* run writes files, the page-level error or a provider state map.
C3_NoMutationAfterAbort ==
    [][\A r \in RunIds :
         (runs[r].aborted /\ runs'[r] # runs[r]) =>
             /\ files' = files
             /\ error' = error
             /\ quotaStore' = quotaStore]_vars

\* C4: in a pass of a run that is not aborted during it, a failing quota
\* request ends neither its siblings nor the pass: when the pass is over every
\* matching file holds the state of its own answer (an error state with the
\* failure's message and status, a success state with the file's own data),
\* and the run ends only when no later provider has a matching file.
C4_FailureKeepsSiblings ==
    \A r \in RunIds : \A i \in ConfigIdx :
        (LatestRun(r) /\ PassOver(r, i)) =>
            /\ \A n \in Matching(r, i) :
                  /\ runs[r].results[n].state = "settled"
                  /\ quotaStore[configs[i]][n] = ExpectedState(runs[r].results[n].resp)
                  /\ runs[r].results[n].resp.ok =>
                        runs[r].results[n].resp.data = <<"quota", n>>
            /\ (runs[r].idx = i /\ runs[r].pc = "done") =>
                  Remaining(runs[r].filesList, i + 1) = {}

C4_Witness ==
    \E r \in RunIds :
        /\ ~runs[r].aborted
        /\ runs[r].pc = "quota"
        /\ runs[r].idx = 2
        /\ quotaStore["ANTIGRAVITY"]["a1"] = buildErrorState("timeout", "503")
        /\ quotaStore["ANTIGRAVITY"]["a2"] = buildSuccessState(<<"quota", "a2">>)

\* C5: a provider's state map is written only by that provider's own pass, and
\* what the pass writes is fixed by the map's content before, the provider's
\* matching files and the answers to their own requests: the answers of the
\* other providers' requests do not enter it.
C5_ProviderMapsIndependent ==
    [][\A i \in ConfigIdx :
         quotaStore'[configs[i]] # quotaStore[configs[i]] =>
            \E r \in RunIds :
               \/ /\ runs[r].pc = "quota"
                  /\ runs[r].idx = i
                  /\ \A n \in Matching(r, i) : runs'[r].results[n].state = "settled"
                  /\ quotaStore'[configs[i]] =
                        [n \in Names |->
                           IF n \in Matching(r, i)
                           THEN ExpectedState(runs'[r].results[n].resp)
                           ELSE quotaStore[configs[i]][n]]
               \/ /\ runs'[r].pc = "quota"
                  /\ runs'[r].idx = i
                  /\ runs[r].idx # i
                  /\ quotaStore'[configs[i]] =
                        [n \in Names |->
                           IF n \in MatchingOf(runs'[r], i)
                           THEN buildLoadingState
                           ELSE quotaStore[configs[i]][n]]]_vars

C5_Witness ==
    \E r \in RunIds :
        /\ runs[r].pc = "done"
        /\ ~runs[r].aborted
        /\ quotaStore["ANTIGRAVITY"]["a2"].status = "error"
        /\ quotaStore["GEMINI_CLI"]["g1"].status = "success"
        /\ quotaStore["CLAUDE"]["k1"].status = "error"

\* C6: every run that passed the guard and is never aborted reaches its finally
\* block, which clears refreshingAll and the abort reference, whatever the
\* config reload, the file-list request and the quota requests answer.
C6_RunEndsAndClears ==
    \A r \in RunIds :
        InFlight(r) ~>
            \/ runs[r].aborted
            \/ runs[r].pc = "done" /\ ~refreshingAll /\ refreshAllAbortRef = {}

C6_Witness ==
    \E r \in RunIds :
        /\ runs[r].pc = "done"
        /\ ~runs[r].aborted
        /\ runs[r].idx = 0
        /\ error = "list failed"
        /\ ~refreshingAll
        /\ refreshAllAbortRef = {}

\* C7: until the page is torn down the abort reference holds the closure of the
\* run in flight and is null when none is; the teardown flips the flag of the
\* run in flight, and changes nothing when none is.
C7_TeardownAbortsRunInFlight ==
    /\ [](phase # "unmounted" => refreshAllAbortRef = RunsInFlight)
    /\ [][(phase = "mounted" /\ phase' = "unmounted") =>
            /\ \A r \in RunIds : runs'[r].aborted = (runs[r].aborted \/ InFlight(r))
            /\ \A r \in RunIds : runs'[r] = [runs[r] EXCEPT !.aborted = runs'[r].aborted]
            /\ UNCHANGED <<pageState, configCalls, filesCalls>>
            /\ RunsInFlight = {} => UNCHANGED runs]_vars

C7_Witness ==
    \E r \in RunIds :
        /\ phase = "unmounted"
        /\ InFlight(r)
        /\ runs[r].aborted
        /\ refreshAllAbortRef = {r}

\* C8: loadConfig is first-error-wins and never throws: a failing config
\* request sets error to its message exactly when error is empty, a succeeding
\* one leaves error alone, nothing else of the page changes, and a run that
\* awaits it goes on to its file-list request.
C8_LoadConfigFirstErrorWins ==
    [][\A resp \in ConfigResponses :
         LET expected ==
                IF ~resp.ok /\ error = ""
                THEN FailureMessage(resp.err, "notification.refresh_failed")
                ELSE error
         IN  /\ LoadConfigSettle(resp) =>
                  /\ error' = expected
                  /\ UNCHANGED <<files, loading, refreshingAll, refreshAllAbortRef,
                                 quotaStore, runs, filesCalls>>
             /\ \A r \in RunIds :
                  RunConfigSettle(r, resp) =>
                     /\ error' = expected
                     /\ UNCHANGED <<files, loading, quotaStore, configCalls, filesCalls>>
                     /\ ~runs[r].aborted =>
                           /\ runs'[r].pc = "list"
                           /\ UNCHANGED <<refreshingAll, refreshAllAbortRef>>]_vars

C8_Witness ==
    /\ error = "config failed"
    /\ \E r \in RunIds : runs[r].pc = "list" /\ ~runs[r].aborted

\* C9 (as claimed): loading is true from the start of a loadFiles call until
\* the call's file-list request settles.
C9_LoadingWhileInFlight == filesCalls > 0 => loading

\* C9 (amended): the settlement of the file-list request of any loadFiles call,
\* success or failure, clears loading; a starting call sets it, and it is
\* cleared by nothing but such a settlement, so it stays true until the first
\* request of a loadFiles call in flight settles; on success files becomes the
\* returned list, or the empty sequence when the response has none.
C9_LoadFilesClearsLoading ==
    [][/\ \A resp \in ListResponses :
            LoadFilesSettle(resp) =>
               /\ ~loading'
               /\ resp.ok =>
                     files' = IF resp.data.hasFiles THEN resp.data.files ELSE <<>>
       /\ filesCalls' > filesCalls => loading'
       /\ (loading /\ ~loading') => filesCalls' < filesCalls]_vars

C9_Witness ==
    /\ filesCalls > 0
    /\ ~loading
    /\ files # <<>>
    /\ error # ""

\* C10: a failing file-list request of loadFiles sets error to that failure's
\* message whatever error held, and does not write files.
C10_LoadFilesErrorOverwrites ==
    [][\A e \in ListThrown :
         LoadFilesSettle(Rejected(e)) =>
            /\ error' = FailureMessage(e, "notification.refresh_failed")
            /\ files' = files]_vars

C10_Witness ==
    /\ error = "list failed"
    /\ files # <<>>
    /\ filesCalls = 0
    /\ \A r \in RunIds : runs[r].pc = "idle"

\* the run has issued a quota request for a file of the provider at position i
Fetched(run, i) == \E n \in MatchingOf(run, i) : run.results[n] # NoResult

\* every quota request of the run for the provider at position i has settled
\* and store holds the merged results
Merged(store, run, i) ==
    \A n \in MatchingOf(run, i) :
        /\ run.results[n].state = "settled"
        /\ store[configs[i]][n] = ExpectedState(run.results[n].resp)

\* C13: a run takes the providers in the order of configs, one at a time: it
\* has issued no quota request for a provider after the one it is at, and
\* every provider before that one has all its requests settled and its results
\* merged; a step that writes a provider's map belongs to a run that is at
\* that provider, with every earlier provider settled and merged; and a run
\* never goes back to an earlier provider.
C13_ProvidersInOrder ==
    /\ [](\A r \in RunIds :
            (LatestRun(r) /\ runs[r].idx >= 1) =>
                /\ \A i \in ConfigIdx : i > runs[r].idx => ~Fetched(runs[r], i)
                /\ \A j \in ConfigIdx : j < runs[r].idx => Merged(quotaStore, runs[r], j))
    /\ [][quotaStore' # quotaStore =>
            \A i \in ConfigIdx :
               quotaStore'[configs[i]] # quotaStore[configs[i]] =>
                  \E r \in RunIds :
                     /\ runs'[r] # runs[r]
                     /\ i \in {runs[r].idx, runs'[r].idx}
                     /\ \A j \in ConfigIdx :
                           j < i => Merged(quotaStore', runs'[r], j)]_vars
    /\ [][\A r \in RunIds : runs'[r].idx >= runs[r].idx]_vars

C13_Witness ==
    \E r \in RunIds :
        /\ runs[r].pc = "quota"
        /\ runs[r].idx = 4
        /\ Merged(quotaStore, runs[r], 1)
        /\ Merged(quotaStore, runs[r], 3)
        /\ quotaStore["ANTIGRAVITY"]["a2"].status = "error"
        /\ quotaStore["CLAUDE"]["k1"] = buildLoadingState

\* C14: the merge of a provider's results is one update made after all its
\* requests settled: while a request of the provider is in flight every
\* matching file is in the loading state, and afterwards the matching files
\* are either all still loading or all hold their results; no state shows a
\* result beside a sibling that is loading, in whatever order the requests
\* settle.
C14_MergeIsFanIn ==
    \A r \in RunIds : \A i \in ConfigIdx :
        (LatestRun(r) /\ Fetched(runs[r], i)) =>
            \/ \A n \in Matching(r, i) : quotaStore[configs[i]][n] = buildLoadingState
            \/ /\ Merged(quotaStore, runs[r], i)
               /\ \A n \in Matching(r, i) :
                     quotaStore[configs[i]][n].status \in {"success", "error"}

C14_Witness ==
    \E r \in RunIds :
        /\ runs[r].pc = "quota"
        /\ runs[r].idx = 1
        /\ runs[r].results["a2"].state = "settled"
        /\ runs[r].results["a1"] = PendingResult
        /\ quotaStore["ANTIGRAVITY"]["a1"] = buildLoadingState
        /\ quotaStore["ANTIGRAVITY"]["a2"] = buildLoadingState

\* C15: when the file-list request of a run that is not aborted fails, the
\* page-level error becomes that failure's message whatever it held, files
\* and every provider map keep their values, the run ends without having
\* issued a quota request, and refreshingAll and the abort reference are
\* cleared.
C15_ListFailureEndsRun ==
    [][\A r \in RunIds : \A e \in ListThrown :
         (RunListSettle(r, Rejected(e)) /\ ~runs[r].aborted) =>
            /\ error' = FailureMessage(e, "notification.refresh_failed")
            /\ files' = files
            /\ quotaStore' = quotaStore
            /\ runs'[r].pc = "done"
            /\ \A n \in Names : runs'[r].results[n] = NoResult
            /\ ~refreshingAll'
            /\ refreshAllAbortRef' = {}]_vars

C15_Witness ==
    \E r \in RunIds :
        /\ runs[r].pc = "done"
        /\ ~runs[r].aborted
        /\ runs[r].idx = 0
        /\ runs[r].filesList = <<>>
        /\ error = "list failed"
        /\ loading
        /\ filesCalls = 1
        /\ configCalls = 1

\* C16: the two map updates of a pass write only keys that are names of files
\* of the run's freshly fetched list matching the provider: every other key,
\* an entry of a file no longer listed included, keeps its value, no key is
\* removed, and a provider without a matching file has its map left alone and
\* is never the provider a run fetches for.
C16_OnlyMatchingKeysWritten ==
    [][/\ quotaStore' # quotaStore =>
            \A i \in ConfigIdx : \A n \in Names :
               /\ quotaStore'[configs[i]][n] # quotaStore[configs[i]][n] =>
                     \E r \in RunIds :
                        /\ runs'[r] # runs[r]
                        /\ n \in MatchingOf(runs'[r], i)
               /\ quotaStore[configs[i]][n] # NoEntry =>
                     quotaStore'[configs[i]][n] # NoEntry
       /\ runs' # runs =>
            \A r \in RunIds : \A i \in ConfigIdx :
               (runs'[r] # runs[r] /\ MatchingOf(runs'[r], i) = {}) =>
                  /\ quotaStore'[configs[i]] = quotaStore[configs[i]]
                  /\ runs'[r].idx # i]_vars

C16_Witness ==
    \E r \in RunIds :
        /\ runs[r].pc = "done"
        /\ ~runs[r].aborted
        /\ NamesOf(runs[r].filesList) = {"k1", "g1", "a2"}
        /\ quotaStore["ANTIGRAVITY"]["a1"] = buildErrorState("timeout", "503")
        /\ quotaStore["ANTIGRAVITY"]["a2"].status = "error"
        /\ quotaStore["CODEX"]["c1"] = buildLoadingState
        /\ quotaStore["CLAUDE"]["k1"].status = "success"

\* C17: a failing quota request never changes the page-level error: a run
\* starts with error cleared, and no step of a run that is fetching quotas,
\* nor the success of its config reload or of its file-list request, changes
\* error; so error is empty at the end of a run whose config reload and
\* file-list request succeeded and beside which nothing else ran, however
\* many quota requests failed.
C17_QuotaFailureLeavesError ==
    [][\A r \in RunIds :
         /\ (runs[r].pc = "idle" /\ runs'[r].pc # "idle") => error' = ""
         /\ (runs[r].pc = "quota" /\ runs'[r] # runs[r]) => error' = error
         /\ RunConfigSettle(r, Resolved("yaml")) => error' = error
         /\ \A d \in ListPayloads : RunListSettle(r, Resolved(d)) => error' = error]_vars

C17_Witness ==
    \E r \in RunIds :
        /\ runs[r].pc = "done"
        /\ ~runs[r].aborted
        /\ error = ""
        /\ runs[r].results["a1"].state = "settled"
        /\ runs[r].results["a1"].status = "error"
        /\ runs[r].results["c1"].state = "settled"
        /\ runs[r].results["c1"].status = "error"

\* C18: when a run that was never aborted and whose file list arrived has
\* finished, no file of that list matching a provider is left loading: its
\* entry in the provider's map is the success or error state of the run's own
\* request for that file.
C18_NothingLeftLoading ==
    \A r \in RunIds :
        (LatestRun(r) /\ runs[r].pc = "done" /\ ~runs[r].aborted) =>
            \A i \in ConfigIdx : \A n \in Matching(r, i) :
                /\ quotaStore[configs[i]][n] # buildLoadingState
                /\ runs[r].results[n].state = "settled"
                /\ runs[r].results[n].name = n
                /\ quotaStore[configs[i]][n] = ExpectedState(runs[r].results[n].resp)

C18_Witness ==
    \E r \in RunIds :
        /\ runs[r].pc = "done"
        /\ ~runs[r].aborted
        /\ NamesOf(runs[r].filesList) = {"x1", "c1", "a1", "a2"}
        /\ quotaStore["ANTIGRAVITY"]["a1"].status = "success"
        /\ quotaStore["ANTIGRAVITY"]["a2"].status = "error"
        /\ quotaStore["CODEX"]["c1"].status = "success"
        /\ \A i \in ConfigIdx : quotaStore[configs[i]]["x1"] = NoEntry

\* C19: in the combined refresh, on mount and from the header, the file-list
\* failure's message is the one shown when both requests fail, whichever
\* fails first: the refresh starts both requests with error cleared; a failing
\* file-list request sets error to its message over the config failure's; a
\* config request that settles afterwards leaves a message alone; and the
\* config failure's message, set only while error is empty, stays when the
\* file-list request succeeds.
C19_ListFailureShown ==
    [][/\ filesCalls' > filesCalls =>
            /\ error' = ""
            /\ filesCalls' = filesCalls + 1
            /\ configCalls' = configCalls + 1
       /\ \A e \in ListThrown :
            LoadFilesSettle(Rejected(e)) =>
               error' = FailureMessage(e, "notification.refresh_failed")
       /\ \A d \in ListPayloads : LoadFilesSettle(Resolved(d)) => error' = error
       /\ \A resp \in ConfigResponses :
            LoadConfigSettle(resp) =>
               error' = IF error = "" /\ ~resp.ok
                        THEN FailureMessage(resp.err, "notification.refresh_failed")
                        ELSE error]_vars

C19_Witness ==
    /\ phase = "mounted"
    /\ error = "list failed"
    /\ files = <<>>
    /\ ~loading
    /\ filesCalls = 0
    /\ configCalls = 0
    /\ \A r \in RunIds : runs[r].pc = "idle"

\* the providers that have a matching file in the run's list
Providers(run) == {i \in ConfigIdx : MatchingOf(run, i) # {}}

\* C20: a failing config reload does not stop a run: the step leaves the run
\* as a succeeding reload does, waiting for its file list, and differs only in
\* error, which takes the config failure's message when it is empty; the file
\* list then replaces files and the run goes to the first provider with a
\* matching file, with error kept; a failing file-list request sets its own
\* message over it.
C20_ConfigFailureGoesOn ==
    [][\A r \in RunIds :
         /\ \A e \in ConfigThrown :
               (RunConfigSettle(r, Rejected(e)) /\ ~runs[r].aborted) =>
                  /\ runs' = [runs EXCEPT ![r].pc = "list"]
                  /\ error' = IF error = ""
                               THEN FailureMessage(e, "notification.refresh_failed")
                               ELSE error
                  /\ UNCHANGED <<files, loading, refreshingAll, refreshAllAbortRef,
                                 quotaStore>>
         /\ \A d \in ListPayloads :
               (RunListSettle(r, Resolved(d)) /\ ~runs[r].aborted) =>
                  /\ files' = IF d.hasFiles THEN d.files ELSE <<>>
                  /\ runs'[r].filesList = files'
                  /\ error' = error
                  /\ IF Providers(runs'[r]) = {}
                     THEN runs'[r].pc = "done"
                     ELSE /\ runs'[r].pc = "quota"
                          /\ runs'[r].idx \in Providers(runs'[r])
                          /\ \A i \in Providers(runs'[r]) : runs'[r].idx <= i
         /\ \A e \in ListThrown :
               RunListSettle(r, Rejected(e)) =>
                  error' = FailureMessage(e, "notification.refresh_failed")]_vars

C20_Witness ==
    \E r \in RunIds :
        /\ runs[r].pc = "done"
        /\ ~runs[r].aborted
        /\ error = "config failed"
        /\ files = runs[r].filesList
        /\ Providers(runs[r]) = {1, 3, 4}
        /\ \A i \in Providers(runs[r]) : Merged(quotaStore, runs[r], i)
        /\ loading
        /\ filesCalls = 1
        /\ configCalls = 1

\* the first n characters of a text
FirstChars(text, n) == [i \in 1..n |-> text[i]]

\* the collapsed view of a content longer than limit: its first limit
\* characters, the ellipsis, and the expand button labelled with the number of
\* kilobytes that hold the content
CollapsedView(text, limit) ==
    [kind |-> "collapsed",
     text |-> FirstChars(text, limit) \o <<".", ".", ".">>,
     toggle |-> "logs.expand",
     size |-> <<CHOOSE k \in 0..(MaxKB + 1) : (k - 1) * KB < Len(text) /\ Len(text) <= k * KB>>]

\* C11: the first rendering shows a content of at most maxPreviewLength
\* characters as it is, with no toggle button, and a longer one collapsed:
\* its first maxPreviewLength characters, then '...', and a button whose size
\* label is ceil(length / 1024).
C11_InitialRendering ==
    clicks = 0 =>
        LET limit == IF maxPreviewLength = <<>> THEN 200 ELSE maxPreviewLength[1]
        IN  IF Len(content) <= limit
            THEN /\ view.kind = "raw"
                 /\ view.text = content
                 /\ view.toggle = "none"
            ELSE view = CollapsedView(content, limit)

C11_Witness ==
    /\ clicks = 0
    /\ Len(content) = KB + 1
    /\ maxPreviewLength = <<KB>>
    /\ view.kind = "collapsed"
    /\ Len(view.text) = KB + 3
    /\ view.size = <<2>>

\* C12: the toggle of a content longer than maxPreviewLength starts
\* collapsed and flips at every click: the view is collapsed exactly when the
\* number of clicks is even, and it is then the original collapsed view.
C12_ToggleRoundTrip ==
    LET limit == IF maxPreviewLength = <<>> THEN 200 ELSE maxPreviewLength[1]
    IN  Len(content) > limit =>
            /\ isExpanded = (clicks % 2 = 1)
            /\ clicks % 2 = 1 => view.kind = "expanded"
            /\ clicks % 2 = 0 => view = CollapsedView(content, limit)

C12_Witness ==
    /\ clicks = 2
    /\ view.kind = "collapsed"
    /\ maxPreviewLength = <<>>
    /\ Len(content) > KB

====
